---- MODULE Spec2Model ----
(***************************************************************************)
(* Model of the customer-support routing graph:                            *)
(*   src/src/agents/nodes.py    CustomerSupportAgentCoordinator (nodes)    *)
(*   src/src/agents/builder.py  build_graph (the node set of the graph)    *)
(*   src/src/agents/types.py    Router / Supervisor / OPTIONS              *)
(*   src/src/agents/run.py      AgentManager (history window, save)        *)
(*   src/src/database_handler/mongodb_handler.py  MemoryHandler (store)    *)
(*                                                                         *)
(* A message content is a sequence of string tokens: a formatted string is *)
(* the concatenation of the template's literal parts and its arguments, so *)
(* a directive, a formatted role answer, the apology and a plain text are  *)
(* different values exactly when the strings are different.                *)
(***************************************************************************)
EXTENDS Integers, Sequences, FiniteSets, TLC

VARIABLES
    pc,             \* position of the current run: a graph node, or a run.py step
    messages,       \* state["messages"] of the graph
    next,           \* state["next"] of the graph
    store,          \* the collection: conversation key -> stored messages
    handler,        \* client, db and collection fields of the MemoryHandler
    lastPut,        \* the last call of insert_or_update_conversation (<<>> before)
    failed_node,    \* the node whose capability call raised in this run, or None
    runs,           \* number of runs started so far
    initial,        \* inputs["messages"] handed to agent.stream by this run
    question,       \* user_question.question of this run
    trace,          \* graph nodes executed in this run, in order
    routerCalls,    \* results of router_agent.invoke in this run
    agentCalls,     \* role agent invocations in this run
    reviewCalls,    \* supervisor_agent invocations in this run
    final_response, \* what process_question_stream returned (<<>> before)
    procs,          \* concurrent callers of process_question_stream, by id
    call,           \* the last handler operation called directly (<<>> before)
    chunker         \* locals of SimpleChunkingStrategy.chunk_text

vars == <<pc, messages, next, store, handler, lastPut, failed_node, runs,
          initial, question, trace, routerCalls, agentCalls, reviewCalls,
          final_response, procs, call, chunker>>

\* The variables of the single run of process_question_stream.
runVars == <<pc, messages, next, failed_node, runs, initial, question, trace,
             routerCalls, agentCalls, reviewCalls, final_response>>

----------------------------------------------------------------------------
(* Bounds *)

MaxRuns == 2

\* Runs of one conversation in the specification of long histories.
MaxHistoryRuns == 5

\* Messages of one conversation in the specification of the store operations.
MaxStored == 3

----------------------------------------------------------------------------
(* Configuration and types *)

None == "None"

TEAM_MEMBERS ==
    {"general_info_agent", "technical_agent", "billing_agent", "supervisor_agent"}

OPTIONS == TEAM_MEMBERS \cup {"FINISH"}

\* Router is a TypedDict: the Literal of "next" is not validated at run time,
\* so the classifier can also hand back a value outside OPTIONS.
UnknownTargets == {"refund_agent"}

RouterNextValues == OPTIONS \cup UnknownTargets

\* Supervisor is a TypedDict too: "approval" is any string.
ApprovalValues == {"approved", "rejected", "maybe"}

GraphNodes ==
    {"router", "general_info_agent", "technical_agent", "billing_agent",
     "supervisor_agent", "final_response"}

RoleNodes == {"general_info_agent", "technical_agent", "billing_agent"}

Questions == {"q1", "q2"}
Actions == {"handle the user query"}
Informations == {"q1", "other info"}
AgentTexts == {"answer1", "answer2"}
ReviewTexts == {"review1", "review2"}

Text(s) == <<s>>

APOLOGY == Text("I'm sorry, I can't help with that. Please try again.")

HistoryWindow == 6

----------------------------------------------------------------------------
(* Messages *)

\* add_messages turns {"role", "content"} dicts into HumanMessage / AIMessage
\* with name None.
MessageOfDict(d) ==
    [type |-> IF d.role = "user" THEN "human" ELSE "ai",
     name |-> None,
     content |-> d.content]

HumanMessage(content, name) == [type |-> "human", name |-> name, content |-> content]

AIMessage(content, name) == [type |-> "ai", name |-> name, content |-> content]

Last(s) == s[Len(s)]

\* Command(goto=target): the graph runs the node of that name; a name that is
\* no node of the graph triggers nothing and the graph run is over.
Goto(target) == IF target \in GraphNodes THEN target ELSE "__end__"

----------------------------------------------------------------------------
(* Formatting *)

\* RESPONSE_FORMAT.format(agent_name=..., information=...): a ChatPromptTemplate
\* with one human template formats to "Human: " followed by the filled template.
RESPONSE_FORMAT(agent_name, information) ==
    <<"Human: Response from ", agent_name, ":\n \n - ", information,
      "\n With above information please provide the final answer to the user.">>

\* f"Conduct the following action: {action} with this information: {information}"
supervisor_message(action, information) ==
    <<"Conduct the following action: ", action,
      " with this information: ", information>>

----------------------------------------------------------------------------
(* _get_original_user_question *)

\* Every langchain message object declares the field "name".
HasAttrName(msg) == TRUE

\* The condition of the if, with Python's precedence: (A and B and not C) or D.
IsOriginalQuestion(msg) ==
    \/ (msg.type = "human" /\ msg.name # "router" /\ ~HasAttrName(msg))
    \/ msg.name = None

RECURSIVE FirstOriginal(_, _)
FirstOriginal(msgs, i) ==
    IF i > Len(msgs)
    THEN IF Len(msgs) > 0 THEN Last(msgs).content ELSE Text("")
    ELSE IF IsOriginalQuestion(msgs[i]) THEN msgs[i].content
    ELSE FirstOriginal(msgs, i + 1)

\* Mutant: the loop never matches and the fallback (last message) is returned.
get_original_user_question_last(msgs) ==
    IF Len(msgs) > 0 THEN Last(msgs).content ELSE Text("")

get_original_user_question(msgs) == FirstOriginal(msgs, 1)

----------------------------------------------------------------------------
(* History store and run.py *)

\* Mutant: the first 6 stored messages instead of the last 6.
FirstN(s, n) == IF Len(s) <= n THEN s ELSE SubSeq(s, 1, n)

\* messages[-6:]
LastN(s, n) == IF Len(s) <= n THEN s ELSE SubSeq(s, Len(s) - n + 1, Len(s))

\* BaseMongoDBHandler: the three connection fields, all None after __init__.
Disconnected == [client |-> None, db |-> None, collection |-> None]

Connected == [client |-> "MongoClient", db |-> "db", collection |-> "collection"]

\* BaseMongoDBHandler.close_connection
close_connection(h) == IF h.client # None THEN Disconnected ELSE h

\* What a connection attempt can do: succeed, raise before self.client is
\* assigned (missing credentials, bad URI), or raise after it (bad db name).
ConnectOutcomes == {"ok", "raise_before_client", "raise_after_client"}

\* Mutant: the except branch does not call close_connection.
connect_to_database_no_cleanup(h, outcome) ==
    IF h.client # None THEN h
    ELSE IF outcome = "ok" THEN Connected
    ELSE IF outcome = "raise_before_client" THEN h
    ELSE [h EXCEPT !.client = "MongoClient"]

\* BaseMongoDBHandler.connect_to_database: every exception is caught and
\* answered with close_connection.
connect_to_database(h, outcome) ==
    IF h.client # None THEN h
    ELSE IF outcome = "ok" THEN Connected
    ELSE IF outcome = "raise_before_client" THEN close_connection(h)
    ELSE close_connection([h EXCEPT !.client = "MongoClient"])

\* Whether that call of connect_to_database constructs a MongoClient (line 46).
BuildsClient(h, outcome) ==
    h.client = None /\ outcome \in {"ok", "raise_after_client"}

\* What client.admin.command("ping") can do: answer, raise
\* ServerSelectionTimeoutError, or raise another exception.
PingOutcomes == {"ok", "timeout", "error"}

\* BaseMongoDBHandler.ensure_connection
ensure_connection(h, ping, outcome) ==
    IF h.client = None THEN connect_to_database(h, outcome)
    ELSE IF ping = "ok" THEN h
    ELSE connect_to_database(h, outcome)

\* Whether that call of ensure_connection constructs a MongoClient.
EnsureBuildsClient(h, ping, outcome) ==
    IF h.client = None THEN BuildsClient(h, outcome)
    ELSE IF ping = "ok" THEN FALSE
    ELSE BuildsClient(h, outcome)

\* UserThread of the chat endpoint.
MainThread == [user_id |-> "1", thread_id |-> "1", agent_name |-> "calculator"]

\* Mutant: find_one with the filter of clear_conversation (no agent_name).
retrieve_conversation_any_agent(coll, h, thread_infor) ==
    LET found == {key \in DOMAIN coll :
                     /\ key.user_id = thread_infor.user_id
                     /\ key.thread_id = thread_infor.thread_id}
    IN  IF h.collection = None \/ found = {} THEN <<>>
        ELSE <<[messages |-> coll[CHOOSE key \in found : TRUE]]>>

\* MemoryHandler.retrieve_conversation: {} (here <<>>) without a collection or
\* without a document of that key, else the document.
retrieve_conversation(coll, h, thread_infor) ==
    IF h.collection = None THEN <<>>
    ELSE IF thread_infor \in DOMAIN coll
         THEN <<[messages |-> coll[thread_infor]]>>
         ELSE <<>>

\* AgentManager._get_chat_history: role and content of the last 6 stored messages.
get_chat_history(chat_history) ==
    IF Len(chat_history) = 0 THEN <<>>
    ELSE LET window == LastN(chat_history[1].messages, HistoryWindow)
         IN  [k \in 1..Len(window) |->
                [role |-> window[k].role, content |-> window[k].content]]

\* Mutant: $set instead of $push, the new messages replace the stored ones.
insert_or_update_conversation_set(coll, h, thread_infor, msgs) ==
    IF h.collection = None THEN coll
    ELSE IF Len(msgs) = 0 THEN coll
    ELSE IF thread_infor \in DOMAIN coll
         THEN [coll EXCEPT ![thread_infor] = msgs]
         ELSE (thread_infor :> msgs) @@ coll

\* MemoryHandler.insert_or_update_conversation: update_one on the key
\* (user_id, thread_id, agent_name) with $push/$each and upsert.
insert_or_update_conversation(coll, h, thread_infor, msgs) ==
    IF h.collection = None THEN coll
    ELSE IF Len(msgs) = 0 THEN coll
    ELSE IF thread_infor \in DOMAIN coll
         THEN [coll EXCEPT ![thread_infor] = @ \o msgs]
         ELSE (thread_infor :> msgs) @@ coll

\* Mutant: the answer is stored before the question.
save_conversation_swapped(q, answer) ==
    <<[role |-> "assistant", content |-> answer],
      [role |-> "user", content |-> q]>>

\* AgentManager._save_conversation: the messages of the ConversationInfor.
save_conversation(q, answer) ==
    <<[role |-> "user", content |-> q],
      [role |-> "assistant", content |-> answer]>>

\* Callers of process_question_stream that run at the same time (requests
\* served by different workers), each on its own UserThread.
Callers == {1, 2}

\* A caller before its first request: the locals of process_question_stream.
IdleCaller(thread) ==
    [pc |-> "idle", user_thread |-> thread, runs |-> 0, returned |-> 0,
     question |-> <<>>, chat_history |-> <<>>, messages |-> <<>>,
     final_response |-> <<>>]

\* SimpleChunkingStrategy.chunk_text before a call.
IdleChunker ==
    [pc |-> "idle", text |-> <<>>, chunk_size |-> 1, chunk_overlap |-> 0,
     start |-> 0, chunks |-> <<>>]

\* process_question_stream up to the call of agent.stream; START -> router.
StartRun(questions, limit) ==
    /\ pc \in {"idle", "returned", "failed"}
    /\ runs < limit
    /\ \E q \in questions :
        LET chat_history == retrieve_conversation(store, handler, MainThread)
            dicts == Append(get_chat_history(chat_history),
                            [role |-> "user", content |-> Text(q)])
            inputs == [k \in 1..Len(dicts) |-> MessageOfDict(dicts[k])]
        IN  /\ question' = Text(q)
            /\ initial' = inputs
            /\ messages' = inputs
    /\ runs' = runs + 1
    /\ next' = None
    /\ pc' = "router"
    /\ trace' = <<>>
    /\ routerCalls' = <<>>
    /\ agentCalls' = <<>>
    /\ reviewCalls' = <<>>
    /\ final_response' = <<>>
    /\ failed_node' = None
    /\ UNCHANGED <<store, handler, lastPut,
                   procs, call, chunker>>

Start == StartRun(Questions, MaxRuns)

\* Mutant: the save stores the question and every message that the graph
\* added after it.
FinishSaveHistory ==
    /\ pc = "__end__"
    /\ final_response' = Last(messages).content
    /\ LET n == Len(initial)
           msgs == [k \in 1..(Len(messages) - n + 1) |->
                      [role |-> IF messages[n - 1 + k].type = "human"
                                THEN "user" ELSE "assistant",
                       content |-> messages[n - 1 + k].content]]
       IN  /\ store' = insert_or_update_conversation(store, handler,
                                                     MainThread, msgs)
           /\ lastPut' = <<[thread |-> MainThread, messages |-> msgs,
                            before |-> store]>>
    /\ pc' = "returned"
    /\ UNCHANGED <<messages, next, runs, initial, question, trace,
                   routerCalls, agentCalls, reviewCalls, handler, failed_node,
                   procs, call, chunker>>

\* process_question_stream after the stream is exhausted: the content of the
\* last message of the last streamed state is saved and returned.
Finish ==
    /\ pc = "__end__"
    /\ final_response' = Last(messages).content
    /\ LET msgs == save_conversation(question, Last(messages).content)
       IN  /\ store' = insert_or_update_conversation(store, handler,
                                                     MainThread, msgs)
           /\ lastPut' = <<[thread |-> MainThread, messages |-> msgs,
                            before |-> store]>>
    /\ pc' = "returned"
    /\ UNCHANGED <<messages, next, runs, initial, question, trace,
                   routerCalls, agentCalls, reviewCalls, handler, failed_node,
                   procs, call, chunker>>

\* Mutant: a failed capability call is answered by running the graph again.
CapabilityFailureRetry ==
    /\ pc \in {"router", "supervisor_agent"} \cup RoleNodes
    /\ pc' = "router"
    /\ failed_node' = pc
    /\ UNCHANGED <<messages, next, store, runs, initial, question, trace,
                   routerCalls, agentCalls, reviewCalls, final_response,
                   handler, lastPut,
                   procs, call, chunker>>

\* A capability call raises (transport error, malformed structured output):
\* the exception leaves the node, the stream and process_question_stream.
CapabilityFailure ==
    /\ pc \in {"router", "supervisor_agent"} \cup RoleNodes
    /\ pc' = "failed"
    /\ failed_node' = pc
    /\ UNCHANGED <<messages, next, store, runs, initial, question, trace,
                   routerCalls, agentCalls, reviewCalls, final_response,
                   handler, lastPut,
                   procs, call, chunker>>

----------------------------------------------------------------------------
(* Graph nodes *)

\* Mutant: a billing target is dispatched to the technical node.
RouterGotoWrongRole(next_step) ==
    IF next_step = "billing_agent" THEN "technical_agent" ELSE next_step

\* goto=next_step
RouterGoto(next_step) == next_step

RouterStep(targets, informations) ==
    /\ pc = "router"
    /\ \E next_step \in targets, action \in Actions,
          information \in informations :
        /\ routerCalls' = Append(routerCalls,
              [next |-> next_step, action |-> action,
               information |-> information,
               input |-> [k \in 1..Len(messages) |-> messages[k].content]])
        /\ messages' = Append(messages,
              HumanMessage(supervisor_message(action, information), "router"))
        /\ next' = next_step
        /\ pc' = Goto(RouterGoto(next_step))
    /\ trace' = Append(trace, "router")
    /\ UNCHANGED <<store, runs, initial, question, agentCalls, reviewCalls,
                   final_response,
                   handler, lastPut, failed_node,
                   procs, call, chunker>>

router_node == RouterStep(RouterNextValues, Informations)

\* Mutant: the agent is handed the first message of the history.
invoke_agent_first(agent, agent_name, results) ==
    LET user_msg == messages[1].content
    IN  \E result \in results :
        /\ agentCalls' = Append(agentCalls,
              [agent |-> agent,
               input |-> <<[role |-> "user", content |-> user_msg]>>,
               result |-> Text(result)])
        /\ messages' = Append(messages,
              HumanMessage(RESPONSE_FORMAT(agent_name, result), agent_name))
        /\ pc' = Goto("supervisor_agent")
        /\ UNCHANGED <<next, store, runs, initial, question, routerCalls,
                       reviewCalls, final_response,
                       handler, lastPut, failed_node,
                       procs, call, chunker>>

invoke_agent(agent, agent_name, results) ==
    LET user_msg == Last(messages).content
    IN  \E result \in results :
        /\ agentCalls' = Append(agentCalls,
              [agent |-> agent,
               input |-> <<[role |-> "user", content |-> user_msg]>>,
               result |-> Text(result)])
        /\ messages' = Append(messages,
              HumanMessage(RESPONSE_FORMAT(agent_name, result), agent_name))
        /\ pc' = Goto("supervisor_agent")
        /\ UNCHANGED <<next, store, runs, initial, question, routerCalls,
                       reviewCalls, final_response,
                       handler, lastPut, failed_node,
                       procs, call, chunker>>

general_info_node ==
    /\ pc = "general_info_agent"
    /\ trace' = Append(trace, "general_info_agent")
    /\ invoke_agent("general_info_agent", "general_info_agent", AgentTexts)

\* Mutant: the technical node labels its answer as the billing agent's.
technical_node_mistagged ==
    /\ pc = "technical_agent"
    /\ trace' = Append(trace, "technical_agent")
    /\ invoke_agent("technical_agent", "billing_agent", AgentTexts)

technical_node ==
    /\ pc = "technical_agent"
    /\ trace' = Append(trace, "technical_agent")
    /\ invoke_agent("technical_agent", "technical_agent", AgentTexts)

billing_node ==
    /\ pc = "billing_agent"
    /\ trace' = Append(trace, "billing_agent")
    /\ invoke_agent("billing_agent", "billing_agent", AgentTexts)

\* Mutant: the reviewer's text is emitted whatever the verdict.
SupervisorContentAlwaysResponse(approval, response) == response

\* The content of the AIMessage that supervisor_node appends.
SupervisorContent(approval, response) ==
    IF approval = "approved" THEN response ELSE APOLOGY

\* Mutant: a rejection is sent back to the router (retry via re-routing).
SupervisorGotoRetry(approval) ==
    IF approval = "approved" THEN "final_response" ELSE "router"

\* The goto of the Command that supervisor_node returns.
SupervisorGoto(approval) ==
    IF approval = "approved" THEN "final_response" ELSE "final_response"

SupervisorStep(approvals, responses) ==
    /\ pc = "supervisor_agent"
    /\ LET agent_msg == Last(messages).content
           original_question == get_original_user_question(messages)
       IN  \E approval \in approvals, response \in responses :
            /\ reviewCalls' = Append(reviewCalls,
                  [question |-> original_question, answer |-> agent_msg,
                   approval |-> approval, response |-> Text(response)])
            /\ messages' = Append(messages,
                  AIMessage(SupervisorContent(approval, Text(response)),
                            "supervisor"))
            /\ pc' = Goto(SupervisorGoto(approval))
    /\ trace' = Append(trace, "supervisor_agent")
    /\ UNCHANGED <<next, store, runs, initial, question, routerCalls,
                   agentCalls, final_response,
                   handler, lastPut, failed_node,
                   procs, call, chunker>>

supervisor_node == SupervisorStep(ApprovalValues, ReviewTexts)

\* Mutant: the final message repeats the message before the last one.
final_response_node_previous ==
    /\ pc = "final_response"
    /\ LET final_msg == messages[Len(messages) - 1].content
       IN  messages' = Append(messages, AIMessage(final_msg, "final_response"))
    /\ pc' = Goto("__end__")
    /\ trace' = Append(trace, "final_response")
    /\ UNCHANGED <<next, store, runs, initial, question, routerCalls,
                   agentCalls, reviewCalls, final_response,
                   handler, lastPut, failed_node,
                   procs, call, chunker>>

\* Mutant: the final message overwrites the last entry of the history.
final_response_node_replace ==
    /\ pc = "final_response"
    /\ LET final_msg == Last(messages).content
       IN  messages' = [messages EXCEPT
                          ![Len(messages)] = AIMessage(final_msg, "final_response")]
    /\ pc' = Goto("__end__")
    /\ trace' = Append(trace, "final_response")
    /\ UNCHANGED <<next, store, runs, initial, question, routerCalls,
                   agentCalls, reviewCalls, final_response,
                   handler, lastPut, failed_node,
                   procs, call, chunker>>

final_response_node ==
    /\ pc = "final_response"
    /\ LET final_msg == Last(messages).content
       IN  messages' = Append(messages, AIMessage(final_msg, "final_response"))
    /\ pc' = Goto("__end__")
    /\ trace' = Append(trace, "final_response")
    /\ UNCHANGED <<next, store, runs, initial, question, routerCalls,
                   agentCalls, reviewCalls, final_response,
                   handler, lastPut, failed_node,
                   procs, call, chunker>>

----------------------------------------------------------------------------
(* Specification *)

\* AgentManager.__init__: an empty collection, the handler after its
\* connection attempt, no request yet.
InitRun ==
    /\ pc = "idle"
    /\ messages = <<>>
    /\ next = None
    /\ store = <<>>
    /\ handler \in {connect_to_database(Disconnected, o) : o \in ConnectOutcomes}
    /\ lastPut = <<>>
    /\ failed_node = None
    /\ runs = 0
    /\ initial = <<>>
    /\ question = <<>>
    /\ trace = <<>>
    /\ routerCalls = <<>>
    /\ agentCalls = <<>>
    /\ reviewCalls = <<>>
    /\ final_response = <<>>
    /\ call = <<>>

Init ==
    /\ InitRun
    /\ procs = [c \in Callers |-> IdleCaller(MainThread)]
    /\ chunker = IdleChunker

Next ==
    \/ Start
    \/ router_node
    \/ general_info_node
    \/ technical_node
    \/ billing_node
    \/ supervisor_node
    \/ final_response_node
    \/ Finish
    \/ CapabilityFailure

Spec == Init /\ [][Next]_vars

----------------------------------------------------------------------------
(* Long histories: the same operations over MaxHistoryRuns runs of one      *)
(* conversation, with the capability results narrowed to one responder     *)
(* role, FINISH, and one text per capability, so that the stored           *)
(* conversation outgrows the window of _get_chat_history.                  *)

HistoryStart == StartRun(Questions, MaxHistoryRuns)

HistoryRouter == RouterStep({"billing_agent", "FINISH"}, {"q1"})

HistoryBilling ==
    /\ pc = "billing_agent"
    /\ trace' = Append(trace, "billing_agent")
    /\ invoke_agent("billing_agent", "billing_agent", {"answer1"})

HistorySupervisor == SupervisorStep({"approved", "rejected"}, {"review1"})

NextHistory ==
    \/ HistoryStart
    \/ HistoryRouter
    \/ HistoryBilling
    \/ HistorySupervisor
    \/ final_response_node
    \/ Finish
    \/ CapabilityFailure

SpecHistory == Init /\ [][NextHistory]_vars

----------------------------------------------------------------------------
(* Store operations: insert_or_update_conversation called with any key and *)
(* any list of at most two messages, on a connected or unconnected handler.*)

Threads ==
    {MainThread,
     [user_id |-> "1", thread_id |-> "1", agent_name |-> "MISS CHINA AI"],
     [user_id |-> "2", thread_id |-> "1", agent_name |-> "calculator"]}

StoredMessages ==
    {[role |-> "user", content |-> Text("q1")],
     [role |-> "assistant", content |-> Text("review1")]}

PutMessages ==
    {<<>>} \cup {<<a>> : a \in StoredMessages}
           \cup {<<a, b>> : a \in StoredMessages, b \in StoredMessages}

\* The pair that _save_conversation stores for one request.
HandlerPair ==
    <<[role |-> "user", content |-> Text("q1")],
      [role |-> "assistant", content |-> Text("answer1")]>>

Stored(thread_infor) ==
    IF thread_infor \in DOMAIN store THEN store[thread_infor] ELSE <<>>

\* MemoryHandler.insert_or_update_conversation called with a key of threads
\* and a list of lists, while the conversation holds at most limit messages.
StorePutOf(threads, lists, limit) ==
    /\ pc = "idle"
    /\ \E thread_infor \in threads, msgs \in lists :
        /\ Len(Stored(thread_infor)) + Len(msgs) <= limit
        /\ store' = insert_or_update_conversation(store, handler,
                                                  thread_infor, msgs)
        /\ lastPut' = <<[thread |-> thread_infor, messages |-> msgs,
                         before |-> store]>>
    /\ UNCHANGED <<pc, messages, next, handler, failed_node, runs, initial,
                   question, trace, routerCalls, agentCalls, reviewCalls,
                   final_response,
                   procs, call, chunker>>

StorePut == StorePutOf(Threads, PutMessages, MaxStored)

NextStore == StorePut

SpecStore == Init /\ [][NextStore]_vars

----------------------------------------------------------------------------
(* Long conversations: the pair of a request appended again and again to   *)
(* two conversations, up to MaxGrowth messages each.                       *)

\* The length named by the commented-out $slice and by the message printed
\* after an update.
SliceLimit == 50

\* Messages of one conversation in the specification of long conversations.
MaxGrowth == 52

GrowthThreads ==
    {MainThread,
     [user_id |-> "1", thread_id |-> "1", agent_name |-> "MISS CHINA AI"]}

GrowthPut == StorePutOf(GrowthThreads, {HandlerPair}, MaxGrowth)

NextGrowth == GrowthPut

SpecGrowth == Init /\ [][NextGrowth]_vars

----------------------------------------------------------------------------
(* Handler operations: the connection methods of BaseMongoDBHandler and    *)
(* the data operations, called in any order on one handler. call records   *)
(* the last of these calls with the handler and the collection before and  *)
(* after it.                                                               *)

\* Messages of one conversation in the specification of the handler.
MaxHandlerStored == 2

\* What a request to the server can do once a collection is held.
ServerOutcomes == {"ok", "raise"}

NoConnection == [status |-> "error", message |-> "No database connection"]

\* The documents of the filter {"user_id", "thread_id"} of clear_conversation.
Matching(coll, thread_infor) ==
    {key \in DOMAIN coll : /\ key.user_id = thread_infor.user_id
                           /\ key.thread_id = thread_infor.thread_id}

Without(coll, key) == [k \in DOMAIN coll \ {key} |-> coll[k]]

\* MemoryHandler.clear_conversation: delete_one removes one document of the
\* filter (<<victim>>), or none when no document matches (<<>>).
clear_conversation(coll, h, thread_infor, victim) ==
    IF h.collection = None THEN coll
    ELSE IF Len(victim) = 0 THEN coll
    ELSE Without(coll, victim[1])

\* result.deleted_count > 0
clear_conversation_result(h, victim) ==
    h.collection # None /\ Len(victim) > 0

Victims(coll, thread_infor) ==
    IF Matching(coll, thread_infor) = {} THEN {<<>>}
    ELSE {<<key>> : key \in Matching(coll, thread_infor)}

\* BaseMongoDBHandler.insert_one: the document is a conversation of a key.
insert_one(coll, h, data, server) ==
    IF h.collection = None THEN coll
    ELSE IF server = "raise" THEN coll
    ELSE (data.key :> data.messages) @@ coll

insert_one_result(h, server) ==
    IF h.collection = None THEN NoConnection
    ELSE IF server = "raise" THEN [status |-> "error", message |-> "str(e)"]
    ELSE [status |-> "success", message |-> "Document inserted successfully"]

CallRecord(op, arg, ping, outcome, h, coll, result, raised, built) ==
    <<[op |-> op, arg |-> arg, ping |-> ping, outcome |-> outcome,
       before |-> [handler |-> handler, store |-> store],
       after |-> [handler |-> h, store |-> coll],
       result |-> result, raised |-> raised, built |-> built]>>

HandlerFrame == UNCHANGED <<lastPut, procs, chunker, runVars>>

ConnectCall(op) ==
    /\ pc = "idle"
    /\ \E outcome \in ConnectOutcomes :
        LET h == connect_to_database(handler, outcome)
        IN  /\ handler' = h
            /\ call' = CallRecord(op, None, None, outcome, h, store, None,
                                  FALSE, BuildsClient(handler, outcome))
    /\ store' = store
    /\ HandlerFrame

CloseCall(op) ==
    /\ pc = "idle"
    /\ LET h == close_connection(handler)
       IN  /\ handler' = h
           /\ call' = CallRecord(op, None, None, None, h, store, None,
                                 FALSE, FALSE)
    /\ store' = store
    /\ HandlerFrame

ConnectToDatabase == ConnectCall("connect_to_database")

CloseConnection == CloseCall("close_connection")

\* BaseMongoDBHandler.__enter__
Enter == ConnectCall("__enter__")

\* BaseMongoDBHandler.__exit__
Exit == CloseCall("__exit__")

EnsureConnection ==
    /\ pc = "idle"
    /\ \E ping \in PingOutcomes, outcome \in ConnectOutcomes :
        LET h == ensure_connection(handler, ping, outcome)
        IN  /\ handler' = h
            /\ call' = CallRecord("ensure_connection", None, ping, outcome, h,
                                  store, None, FALSE,
                                  EnsureBuildsClient(handler, ping, outcome))
    /\ store' = store
    /\ HandlerFrame

\* insert_one with the conversation of a key that has no document yet.
InsertOne ==
    /\ pc = "idle"
    /\ \E thread_infor \in Threads \ DOMAIN store, server \in ServerOutcomes :
        LET data == [key |-> thread_infor, messages |-> HandlerPair]
            coll == insert_one(store, handler, data, server)
        IN  /\ store' = coll
            /\ call' = CallRecord("insert_one", thread_infor, None, server,
                                  handler, coll,
                                  insert_one_result(handler, server),
                                  FALSE, FALSE)
    /\ handler' = handler
    /\ HandlerFrame

\* retrieve_conversation has no try: an exception of find_one leaves it.
RetrieveConversation ==
    /\ pc = "idle"
    /\ \E thread_infor \in Threads, server \in ServerOutcomes :
        LET raised == handler.collection # None /\ server = "raise"
            result == IF raised THEN None
                      ELSE retrieve_conversation(store, handler, thread_infor)
        IN  call' = CallRecord("retrieve_conversation", thread_infor, None,
                               server, handler, store, result, raised, FALSE)
    /\ UNCHANGED <<store, handler>>
    /\ HandlerFrame

\* clear_conversation has no try: an exception of delete_one leaves it.
ClearConversation ==
    /\ pc = "idle"
    /\ \E thread_infor \in Threads, server \in ServerOutcomes :
        \E victim \in Victims(store, thread_infor) :
            LET raised == handler.collection # None /\ server = "raise"
                coll == IF raised THEN store
                        ELSE clear_conversation(store, handler, thread_infor,
                                                victim)
                result == IF raised THEN None
                          ELSE clear_conversation_result(handler, victim)
            IN  /\ store' = coll
                /\ call' = CallRecord("clear_conversation", thread_infor, None,
                                      server, handler, coll, result, raised,
                                      FALSE)
    /\ handler' = handler
    /\ HandlerFrame

HandlerPut == StorePutOf(Threads, {HandlerPair}, MaxHandlerStored)

NextHandler ==
    \/ ConnectToDatabase
    \/ CloseConnection
    \/ Enter
    \/ Exit
    \/ EnsureConnection
    \/ InsertOne
    \/ RetrieveConversation
    \/ ClearConversation
    \/ HandlerPut

SpecHandler == Init /\ [][NextHandler]_vars

----------------------------------------------------------------------------
(* SimpleChunkingStrategy.chunk_text, one action per iteration of its loop, *)
(* called through ChunkDocument.chunk_text with any text, size and overlap. *)

MaxTextLen == 3

MaxChunkSize == 3

MaxChunkOverlap == 3

\* Iterations of the loop of one call.
MaxChunks == 5

\* A text of n characters, each character named by its position.
TextOfLength(n) == [i \in 1..n |-> i]

Max(a, b) == IF a >= b THEN a ELSE b

\* A slice bound as Python reads it: a negative bound counts from the end,
\* and every bound is clamped to 0..n.
PyBound(i, n) == IF i < 0 THEN Max(i + n, 0) ELSE IF i > n THEN n ELSE i

\* text[a:b]
PySlice(text, a, b) ==
    LET lo == PyBound(a, Len(text))
        hi == PyBound(b, Len(text))
    IN  IF lo < hi THEN SubSeq(text, lo + 1, hi) ELSE <<>>

ChunkFrame == UNCHANGED <<store, handler, lastPut, call, procs, runVars>>

\* ChunkDocument.chunk_text and the lines of the strategy before the loop:
\* an empty text returns [].
ChunkText ==
    /\ chunker.pc \in {"idle", "done"}
    /\ \E n \in 0..MaxTextLen, chunk_size \in 1..MaxChunkSize,
          chunk_overlap \in 0..MaxChunkOverlap :
        chunker' = [pc |-> IF n = 0 THEN "done" ELSE "while",
                    text |-> TextOfLength(n), chunk_size |-> chunk_size,
                    chunk_overlap |-> chunk_overlap, start |-> 0,
                    chunks |-> <<>>]
    /\ ChunkFrame

\* One iteration of `while start < text_length`.
ChunkWhile ==
    /\ chunker.pc = "while"
    /\ chunker.start < Len(chunker.text)
    /\ Len(chunker.chunks) < MaxChunks
    /\ LET text_length == Len(chunker.text)
           end == IF chunker.start + chunker.chunk_size <= text_length
                  THEN chunker.start + chunker.chunk_size ELSE text_length
       IN  chunker' =
             [chunker EXCEPT
                !.chunks = Append(@, PySlice(chunker.text, chunker.start, end)),
                !.start = IF end < text_length
                          THEN end - chunker.chunk_overlap ELSE end]
    /\ ChunkFrame

\* The loop condition fails: return chunks.
ChunkReturn ==
    /\ chunker.pc = "while"
    /\ ~(chunker.start < Len(chunker.text))
    /\ chunker' = [chunker EXCEPT !.pc = "done"]
    /\ ChunkFrame

NextChunk ==
    \/ ChunkText
    \/ ChunkWhile
    \/ ChunkReturn

SpecChunk == Init /\ [][NextChunk]_vars

----------------------------------------------------------------------------
(* Concurrent requests: two callers of process_question_stream share the   *)
(* collection. The graph of a request does not touch the collection, so a  *)
(* request is three steps: the read of the history, the stream (which      *)
(* yields the final message or raises), and the save.                      *)

\* Requests of one caller.
MaxCallerRuns == 2

CallerQuestions(c) == IF c = 1 THEN {"q1"} ELSE {"q2"}

CallerAnswers(c) == IF c = 1 THEN {"answer1"} ELSE {"answer2"}

\* process_question_stream, lines 35-39: _get_chat_history and the question.
CallerGetChatHistory(c) ==
    /\ procs[c].pc \in {"idle", "returned", "failed"}
    /\ procs[c].runs < MaxCallerRuns
    /\ \E q \in CallerQuestions(c) :
        LET chat_history == retrieve_conversation(store, handler,
                                                  procs[c].user_thread)
            dicts == Append(get_chat_history(chat_history),
                            [role |-> "user", content |-> Text(q)])
        IN  procs' = [procs EXCEPT ![c].pc = "stream",
                                   ![c].runs = @ + 1,
                                   ![c].question = Text(q),
                                   ![c].chat_history = chat_history,
                                   ![c].messages = dicts,
                                   ![c].final_response = <<>>]
    /\ UNCHANGED <<store, handler, lastPut, call, chunker, runVars>>

\* process_question_stream, lines 40-43: the stream ends with a last message.
CallerStream(c) ==
    /\ procs[c].pc = "stream"
    /\ \E a \in CallerAnswers(c) :
        procs' = [procs EXCEPT ![c].pc = "save",
                               ![c].final_response = Text(a)]
    /\ UNCHANGED <<store, handler, lastPut, call, chunker, runVars>>

\* process_question_stream, line 40: a node of the graph raises.
CallerStreamRaises(c) ==
    /\ procs[c].pc = "stream"
    /\ procs' = [procs EXCEPT ![c].pc = "failed"]
    /\ UNCHANGED <<store, handler, lastPut, call, chunker, runVars>>

\* Mutant: the save writes back the history read at the start of the request
\* followed by the new pair.
CallerSaveConversationWriteBack(c) ==
    /\ procs[c].pc = "save"
    /\ LET msgs == save_conversation(procs[c].question,
                                     procs[c].final_response)
           read == IF Len(procs[c].chat_history) = 0 THEN <<>>
                   ELSE procs[c].chat_history[1].messages
       IN  /\ store' = IF handler.collection = None THEN store
                        ELSE (procs[c].user_thread :> (read \o msgs)) @@ store
           /\ lastPut' = <<[thread |-> procs[c].user_thread,
                            messages |-> msgs, before |-> store]>>
    /\ procs' = [procs EXCEPT ![c].pc = "returned", ![c].returned = @ + 1]
    /\ UNCHANGED <<handler, call, chunker, runVars>>

\* process_question_stream, lines 47-50: _save_conversation and the return.
CallerSaveConversation(c) ==
    /\ procs[c].pc = "save"
    /\ LET msgs == save_conversation(procs[c].question,
                                     procs[c].final_response)
       IN  /\ store' = insert_or_update_conversation(store, handler,
                                                     procs[c].user_thread, msgs)
           /\ lastPut' = <<[thread |-> procs[c].user_thread,
                            messages |-> msgs, before |-> store]>>
    /\ procs' = [procs EXCEPT ![c].pc = "returned", ![c].returned = @ + 1]
    /\ UNCHANGED <<handler, call, chunker, runVars>>

InitConcurrent ==
    /\ InitRun
    /\ procs \in [Callers -> {IdleCaller(t) : t \in Threads}]
    /\ chunker = IdleChunker

NextConcurrent ==
    \/ \E c \in Callers : CallerGetChatHistory(c)
    \/ \E c \in Callers : CallerStream(c)
    \/ \E c \in Callers : CallerStreamRaises(c)
    \/ \E c \in Callers : CallerSaveConversation(c)

SpecConcurrent == InitConcurrent /\ [][NextConcurrent]_vars

----------------------------------------------------------------------------
(* Properties *)

RunOver == pc \in {"__end__", "returned"}

Occurrences(seq, x) == Cardinality({i \in 1..Len(seq) : seq[i] = x})

\* The nodes executed after the last review of the run.
AfterReview ==
    LET idx == {i \in 1..Len(trace) : trace[i] = "supervisor_agent"}
        last == CHOOSE i \in idx : \A j \in idx : j <= i
    IN  SubSeq(trace, last + 1, Len(trace))

\* C1: when the classifier returns a registered responder role, the node
\* entered next is exactly that role's node, state.next equals the target,
\* and no other responder role is invoked in the run.
C1_DispatchToExactRole ==
    (routerCalls # <<>> /\ Last(routerCalls).next \in RoleNodes) =>
        LET target == Last(routerCalls).next
        IN  /\ next = target
            /\ Last(trace) = "router" => pc \in {target, "failed"}
            /\ \A i \in 1..Len(trace) : trace[i] \in RoleNodes => trace[i] = target
            /\ \A i \in 1..Len(agentCalls) : agentCalls[i].agent = target
            /\ RunOver => Len(agentCalls) = 1

C1_Witness ==
    /\ pc = "returned"
    /\ routerCalls # <<>> /\ Last(routerCalls).next = "billing_agent"
    /\ Len(agentCalls) = 1 /\ agentCalls[1].agent = "billing_agent"

\* C2: a classifier target outside the role registry and different from the
\* terminal sentinel ends the run in an error surfaced to the caller: nothing
\* is dispatched, the run does not return normally, no final message exists.
C2_UnknownTargetIsContractViolation ==
    (routerCalls # <<>> /\ Last(routerCalls).next \notin OPTIONS) =>
        /\ trace = <<"router">>
        /\ agentCalls = <<>> /\ reviewCalls = <<>>
        /\ pc # "returned"
        /\ final_response = <<>>

\* C3: when the classifier returns FINISH the coordinator enters final (the
\* final_response node), whose message ends the history, and the run ends
\* normally without any role agent or reviewer invocation.
C3_FinishGoesToFinal ==
    (routerCalls # <<>> /\ Last(routerCalls).next = "FINISH") =>
        /\ pc # "failed"
        /\ agentCalls = <<>> /\ reviewCalls = <<>>
        /\ RunOver =>
            /\ Last(trace) = "final_response"
            /\ Last(messages).name = "final_response"

WellFormedRun ==
    /\ \A i \in 1..Len(routerCalls) : routerCalls[i].next \in OPTIONS
    /\ \A i \in 1..Len(reviewCalls) :
          reviewCalls[i].approval \in {"approved", "rejected"}

\* C4: a run whose capability calls all return well-formed results (a target
\* in TEAM_MEMBERS or FINISH, a verdict approved or rejected) ends in the final
\* state: when the graph run is over, final_response_node was the last node.
C4_WellFormedRunReachesFinal ==
    (RunOver /\ WellFormedRun) =>
        /\ Last(trace) = "final_response"
        /\ Last(messages).name = "final_response"

\* C5: in every run at most 2 role agent invocations and at most 2 reviewer
\* invocations happen.
C5_AtMostTwoInvocations ==
    /\ Len(agentCalls) <= 2
    /\ Len(reviewCalls) <= 2
    /\ Occurrences(trace, "supervisor_agent") <= 2
    /\ Cardinality({i \in 1..Len(trace) : trace[i] \in RoleNodes}) <= 2

C5_Witness ==
    /\ pc = "returned"
    /\ Len(agentCalls) = 1 /\ Len(reviewCalls) = 1
    /\ reviewCalls[1].approval = "rejected"

\* C6: after an approved review the coordinator goes to final with no further
\* routing, and the final output (the last history entry, tagged
\* final_response, and what the caller gets) is the reviewer's text verbatim.
C6_ApprovedTextIsFinal ==
    (reviewCalls # <<>> /\ Last(reviewCalls).approval = "approved") =>
        /\ pc \in {"final_response", "__end__", "returned"}
        /\ AfterReview \in {<<>>, <<"final_response">>}
        /\ Occurrences(trace, "router") = 1
        /\ RunOver =>
            /\ Last(messages).name = "final_response"
            /\ Last(messages).content = Last(reviewCalls).response
        /\ pc = "returned" => final_response = Last(reviewCalls).response

C6_Witness ==
    /\ pc = "returned"
    /\ reviewCalls # <<>> /\ Last(reviewCalls).approval = "approved"
    /\ final_response = Text("review2")

\* C7: after a rejected review the final output is the fixed apology, the
\* reviewer's text is not emitted, the router is not re-entered and the role
\* agent has been invoked exactly once in the run.
C7_RejectedGivesApology ==
    (reviewCalls # <<>> /\ Last(reviewCalls).approval = "rejected"
        /\ pc = "returned") =>
        /\ final_response = APOLOGY
        /\ final_response # Last(reviewCalls).response
        /\ Occurrences(trace, "router") = 1
        /\ Len(agentCalls) = 1

\* C8: the value of _get_original_user_question is the same in every state of
\* a run, and the question the reviewer receives is that value: never the
\* router's directive, never a role agent's answer.
C8_OriginalRequestInvariant ==
    messages # <<>> =>
        /\ get_original_user_question(messages) =
              get_original_user_question(initial)
        /\ \A i \in 1..Len(reviewCalls) :
            /\ reviewCalls[i].question = get_original_user_question(initial)
            /\ \A k \in 1..Len(messages) :
                  messages[k].name \in {"router"} \cup RoleNodes
                    => reviewCalls[i].question # messages[k].content

C8_Witness ==
    /\ pc = "returned"
    /\ Len(agentCalls) = 1 /\ Len(reviewCalls) = 1
    /\ Len(initial) > 1

FirstUserIndex(msgs) ==
    CHOOSE i \in 1..Len(msgs) :
        /\ msgs[i].type = "human"
        /\ \A j \in 1..(i - 1) : msgs[j].type # "human"

\* C9: for every initial history (stored user and assistant turns followed by
\* the new question) the original request handed to the reviewer is the
\* content of the first entry with role user, never of an assistant entry.
C9_OriginalIsFirstUserEntry ==
    \A i \in 1..Len(reviewCalls) :
        /\ reviewCalls[i].question = initial[FirstUserIndex(initial)].content
        /\ \A k \in 1..Len(initial) :
              initial[k].type = "ai" =>
                  reviewCalls[i].question # initial[k].content

\* Before the run is saved: the conversation read by this run is longer than
\* the window, the window holds user and assistant turns, and the reviewer
\* has been called with a question that is not the new one.
C9_Witness ==
    /\ pc = "__end__"
    /\ reviewCalls # <<>>
    /\ MainThread \in DOMAIN store
    /\ Len(store[MainThread]) > HistoryWindow
    /\ Len(initial) = HistoryWindow + 1
    /\ \E k \in 1..Len(initial) : initial[k].type = "ai"
    /\ reviewCalls[1].question # question

\* C10: the review state is entered only right after a role agent state: when
\* supervisor_node runs, the last history entry is a role-tagged answer
\* appended in this run, never the router's directive or a caller message.
C10_ReviewOnlyAfterRole ==
    pc = "supervisor_agent" =>
        /\ Last(trace) \in RoleNodes
        /\ Last(messages).name \in RoleNodes
        /\ Len(messages) > Len(initial) + 1

----------------------------------------------------------------------------
(* Properties of the role entries, the history and the capability calls *)

\* The history entry appended by the i-th executed node of the run.
EntryOf(i) == messages[Len(initial) + i]

\* C11: the entry appended by a role state is tagged with the identifier of
\* exactly the role that was dispatched (the classifier's target and
\* state.next), and it is in the history when the review state is entered.
C11_RoleEntryTaggedWithRole ==
    /\ \A i \in 1..Len(trace) :
          trace[i] \in RoleNodes =>
            /\ Len(messages) >= Len(initial) + i
            /\ EntryOf(i).name = trace[i]
            /\ EntryOf(i).name = next
            /\ EntryOf(i).name = Last(routerCalls).next
    /\ \A k \in 1..Len(messages) :
          (k > Len(initial) /\ messages[k].name \in RoleNodes) =>
              trace[k - Len(initial)] = messages[k].name
    /\ (pc = "supervisor_agent" /\ Last(trace) \in RoleNodes) =>
          Last(messages).name = Last(trace)

C11_Witness ==
    /\ pc = "supervisor_agent"
    /\ Last(trace) = "technical_agent"
    /\ Last(messages).name = "technical_agent"

C12_Step ==
    /\ (pc \in GraphNodes /\ pc' # "failed") =>
          /\ Len(messages') = Len(messages) + 1
          /\ SubSeq(messages', 1, Len(messages)) = messages
    /\ ((pc \in GraphNodes /\ pc' = "failed") \/ pc = "__end__") =>
          messages' = messages
    /\ pc' # "idle" => messages' # <<>>

\* C12: the history is append-only within a run and never empty after
\* initialization: every node (route, role, review, final) adds exactly one
\* entry at the end and leaves every earlier entry and their order unchanged.
C12_HistoryAppendOnly == [][C12_Step]_vars

C12_Witness ==
    /\ pc = "returned"
    /\ Len(messages) = Len(initial) + 4
    /\ SubSeq(messages, 1, Len(initial)) = initial
    /\ messages[Len(initial) + 2].name = "billing_agent"
    /\ Last(messages).name = "final_response"

Tokens(content) == {content[k] : k \in 1..Len(content)}

\* C13: each role agent invocation receives the directive (action and
\* information of the most recent routing decision) and, as context, the
\* most recent user-facing message of the conversation.
C13_AgentGetsDirectiveAndContext ==
    \A i \in 1..Len(agentCalls) :
        LET input == agentCalls[i].input
            directive == supervisor_message(Last(routerCalls).action,
                                            Last(routerCalls).information)
        IN  /\ \E k \in 1..Len(input) : input[k].content = directive
            /\ \E k \in 1..Len(input) :
                  Tokens(question) \subseteq Tokens(input[k].content)

Rank(node) ==
    IF node = "router" THEN 1
    ELSE IF node \in RoleNodes THEN 2
    ELSE IF node = "supervisor_agent" THEN 3
    ELSE 4

PositionOf(nodes) == CHOOSE i \in 1..Len(trace) : trace[i] \in nodes

\* C14: the capability calls of a run form a strict chain, one node at a
\* time: classify, then respond, then review, every call finished within its
\* own step and reading the history entry written by the step before it.
C14_StrictChain ==
    /\ \A i, j \in 1..Len(trace) : i < j => Rank(trace[i]) < Rank(trace[j])
    /\ Len(routerCalls) = Occurrences(trace, "router")
    /\ Len(agentCalls) = Cardinality({i \in 1..Len(trace) : trace[i] \in RoleNodes})
    /\ Len(reviewCalls) = Occurrences(trace, "supervisor_agent")
    /\ routerCalls # <<>> =>
          routerCalls[1].input = [k \in 1..Len(initial) |-> initial[k].content]
    /\ agentCalls # <<>> =>
          LET pos == PositionOf(RoleNodes)
          IN  /\ pos > 1 /\ trace[pos - 1] = "router"
              /\ agentCalls[1].input =
                    <<[role |-> "user", content |-> EntryOf(pos - 1).content]>>
    /\ reviewCalls # <<>> =>
          LET pos == PositionOf({"supervisor_agent"})
          IN  /\ pos > 1
              /\ reviewCalls[1].answer = EntryOf(pos - 1).content

C14_Witness ==
    /\ pc = "final_response"
    /\ trace = <<"router", "general_info_agent", "supervisor_agent">>

FailedCalls(node) == IF failed_node = node THEN 1 ELSE 0

C15_State ==
    /\ Len(routerCalls) + FailedCalls("router") <= 1
    /\ Len(reviewCalls) + FailedCalls("supervisor_agent") <= 1
    /\ Len(agentCalls)
          + Cardinality({n \in RoleNodes : failed_node = n}) <= 1
    /\ pc = "failed" =>
          /\ failed_node \in {"router", "supervisor_agent"} \cup RoleNodes
          /\ \A i \in 1..Len(trace) : trace[i] # failed_node
          /\ final_response = <<>>

C15_Step ==
    /\ pc = "failed" => (pc' = "router" /\ runs' = runs + 1)
    /\ pc' = "failed" => (store' = store /\ trace' = trace)

\* C15: a failed capability call ends the run as a failure: the failed
\* capability is not invoked again, no later node is entered (only a new run
\* of the caller follows), nothing is returned, and each capability is
\* invoked at most once per run.
C15_FailureEndsRun == [](C15_State) /\ [][C15_Step]_vars

C15_Witness ==
    /\ pc = "failed"
    /\ failed_node = "supervisor_agent"
    /\ Len(agentCalls) = 1

\* C16: a review decision whose verdict is neither approved nor rejected is
\* fatal: the run does not return and no final message is emitted.
C16_MalformedReviewIsFatal ==
    (reviewCalls # <<>>
        /\ Last(reviewCalls).approval \notin {"approved", "rejected"}) =>
        /\ pc # "returned"
        /\ final_response = <<>>

FatalCondition ==
    \/ pc = "failed"
    \/ failed_node # None
    \/ \E i \in 1..Len(routerCalls) : routerCalls[i].next \notin OPTIONS
    \/ \E i \in 1..Len(reviewCalls) :
          reviewCalls[i].approval \notin {"approved", "rejected"}

\* C17: on a fatal condition no intermediate message (the question, the
\* router directive, a role answer, a reviewer message) is delivered to the
\* caller or recorded as the final answer of the run.
C17_NoIntermediateMessageOnFatal ==
    FatalCondition =>
        /\ \A k \in 1..Len(messages) : final_response # messages[k].content
        /\ pc # "returned"

\* C18: without a database connection a run is fatal (no degradation is
\* configured anywhere): it ends at the read of the history, before the
\* classifier is called, and returns no answer.
C18_StoreUnavailableIsFatal ==
    handler.collection = None =>
        /\ routerCalls = <<>>
        /\ pc # "returned"

Min(a, b) == IF a <= b THEN a ELSE b

\* C19: the initial history of a run is the last min(6, n) stored messages of
\* the conversation, in stored order, role and content unchanged, followed
\* by the new question as last entry.
C19_InitialHistoryIsWindow ==
    pc \in GraphNodes \cup {"__end__", "failed"} =>
        LET stored == Stored(MainThread)
            n == Len(stored)
            m == Min(HistoryWindow, n)
        IN  /\ Len(initial) = m + 1
            /\ \A k \in 1..m :
                  /\ initial[k].content = stored[n - m + k].content
                  /\ initial[k].type =
                        (IF stored[n - m + k].role = "user" THEN "human" ELSE "ai")
                  /\ initial[k].name = None
            /\ Last(initial) = HumanMessage(question, None)

C19_Witness ==
    /\ pc = "router"
    /\ Len(Stored(MainThread)) = HistoryWindow + 2
    /\ Len(initial) = HistoryWindow + 1
    /\ initial[1].content # Stored(MainThread)[1].content

IsPrefix(a, b) == Len(a) <= Len(b) /\ SubSeq(b, 1, Len(a)) = a

----------------------------------------------------------------------------
(* Concurrent requests *)

InFlight(c) == procs[c].pc \in {"stream", "save"}

\* C21: between the read of the stored history by a request and its save, no
\* other request mutates that conversation: while a request is in flight,
\* the stored conversation of its key is the one it read.
C21_NoMutationBetweenReadAndSave ==
    \A c \in Callers :
        InFlight(c) =>
            retrieve_conversation(store, handler, procs[c].user_thread)
                = procs[c].chat_history

\* The (user question, assistant answer) pair of the last request of caller c.
PairOf(c) == save_conversation(procs[c].question, procs[c].final_response)

SameKeyCallers(key) == {c \in Callers : procs[c].user_thread = key}

RECURSIVE SumReturned(_)
SumReturned(cs) ==
    IF cs = {} THEN 0
    ELSE LET c == CHOOSE x \in cs : TRUE
         IN  procs[c].returned + SumReturned(cs \ {c})

ContentsOf(c) == {Text(x) : x \in CallerQuestions(c) \cup CallerAnswers(c)}

C23_State ==
    \A c \in Callers, d \in Callers :
        procs[c].user_thread # procs[d].user_thread =>
            \A k \in 1..Len(procs[c].messages) :
                procs[c].messages[k].content \notin ContentsOf(d)

C23_Step ==
    \A c \in Callers, d \in Callers :
        (/\ procs[c].user_thread # procs[d].user_thread
         /\ procs[c].pc = "save"
         /\ procs'[c].pc = "returned") =>
            /\ (procs[d].user_thread \in DOMAIN store) =
                  (procs[d].user_thread \in DOMAIN store')
            /\ procs[d].user_thread \in DOMAIN store =>
                  store'[procs[d].user_thread] = store[procs[d].user_thread]

\* C23: requests of distinct conversations are isolated: the initial history
\* of a request holds no message of the other conversation, and the save of
\* a request leaves the other conversation as it was stored.
C23_DistinctConversationsIsolated == [](C23_State) /\ [][C23_Step]_vars

C23_Witness ==
    /\ handler.collection # None
    /\ procs[1].user_thread.user_id = procs[2].user_thread.user_id
    /\ procs[1].user_thread.thread_id = procs[2].user_thread.thread_id
    /\ procs[1].user_thread.agent_name # procs[2].user_thread.agent_name
    /\ procs[1].returned = 1
    /\ procs[2].pc = "stream"
    /\ procs[2].runs = 2
    /\ Len(procs[2].messages) = 3

----------------------------------------------------------------------------
(* Handler operations *)

\* C24: ensure_connection reconnects if needed: called on a handler without
\* a client, or with a client whose ping fails, while the server is
\* reachable, it constructs a new client and leaves client, db and
\* collection set.
C24_EnsureConnectionReconnects ==
    (/\ call # <<>>
     /\ call[1].op = "ensure_connection"
     /\ call[1].outcome = "ok"
     /\ (call[1].before.handler.client = None \/ call[1].ping # "ok")) =>
        /\ call[1].built
        /\ call[1].after.handler = Connected

\* C29: clear_conversation(thread) removes exactly the conversation of the
\* key (user_id, thread_id, agent_name) of thread: after it returns True,
\* retrieve_conversation(thread) is empty and the conversation of every
\* other key, the same user and thread under another agent_name included,
\* is unchanged.
C29_ClearRemovesExactlyItsKey ==
    (/\ call # <<>>
     /\ call[1].op = "clear_conversation"
     /\ ~call[1].raised) =>
        LET thread_infor == call[1].arg
            old == call[1].before.store
            new == call[1].after.store
        IN  /\ call[1].result =>
                  retrieve_conversation(new, call[1].after.handler,
                                        thread_infor) = <<>>
            /\ \A key \in DOMAIN old :
                  key # thread_infor =>
                      /\ key \in DOMAIN new
                      /\ new[key] = old[key]

AllUnset(h) == h.client = None /\ h.db = None /\ h.collection = None

AllSet(h) == h.client # None /\ h.db # None /\ h.collection # None

DataOperations == {"insert_one", "retrieve_conversation", "clear_conversation"}

C25_KeepsLast50 ==
    \A key \in DOMAIN store : Len(store[key]) <= SliceLimit

----------------------------------------------------------------------------
(* Chunking *)

C26_State ==
    \A k \in 1..Len(chunker.chunks) :
        Len(chunker.chunks[k]) <= chunker.chunk_size

\* start is the only local that changes between two tests of the loop
\* condition, and its next value is a function of its value: the loop ends
\* exactly when every iteration moves start forward.
C26_Step ==
    (chunker.pc = "while" /\ chunker'.pc = "while"
        /\ chunker'.chunks # chunker.chunks) =>
            chunker'.start > chunker.start

\* C26: chunk_text terminates for every non-empty text, chunk_size >= 1 and
\* chunk_overlap >= 0, chunk_overlap >= chunk_size included, and every chunk
\* has at most chunk_size characters.
C26_ChunkTextTerminates == [](C26_State) /\ [][C26_Step]_vars

----------------------------------------------------------------------------
(* What a run persists *)

ReachedFinal == trace # <<>> /\ Last(trace) = "final_response"

\* C27: a run that reaches final appends exactly two messages to its
\* conversation (on a connected handler): the question with role user, then
\* with role assistant the final answer that is returned to the caller;
\* no other entry of the run's history is stored and no other conversation
\* is touched.
C27_SavesQuestionAndFinalAnswer ==
    (pc = "returned" /\ ReachedFinal /\ handler.collection # None) =>
        LET before == lastPut[1].before
            old == IF MainThread \in DOMAIN before
                   THEN before[MainThread] ELSE <<>>
        IN  /\ final_response = Last(messages).content
            /\ Last(messages).name = "final_response"
            /\ Len(store[MainThread]) = Len(old) + 2
            /\ store[MainThread] =
                  old \o <<[role |-> "user", content |-> question],
                           [role |-> "assistant", content |-> final_response]>>
            /\ DOMAIN store = {MainThread}

C27_Witness ==
    /\ pc = "returned"
    /\ ReachedFinal
    /\ handler.collection # None
    /\ Len(store[MainThread]) = 4
    /\ Len(messages) - Len(initial) = 4

\* The classifier named a target that is neither a team member nor FINISH.
UndispatchableTarget ==
    routerCalls # <<>> /\ Last(routerCalls).next \notin OPTIONS

C28_State ==
    (pc = "returned" /\ UndispatchableTarget) => store = lastPut[1].before

C28_Step ==
    pc' = "failed" => store' = store

\* C28: a run that fails before reaching final, because a capability call
\* raises or because the target of the classifier cannot be dispatched,
\* leaves the history store as it was: nothing of the run is saved.
C28_FailedRunSavesNothing == [](C28_State) /\ [][C28_Step]_vars

====
